---- MODULE Spec2Model ----
(***************************************************************************)
(* Model of the tarot reading app (chat-with-tarots): qianwen_app.py with  *)
(* helpers/qianwen_help_func.py and helpers/qwen_langchain_improved.py.    *)
(*                                                                         *)
(* A Python str is a sequence of tokens (each token a short TLA+ string),  *)
(* so that strip, format, join and substring search are computed as the    *)
(* code computes them.  The source's Chinese literals are written as ASCII *)
(* glosses; each definition names the source line of its literal.          *)
(*                                                                         *)
(* The app is a Streamlit script: every widget interaction re-runs it from *)
(* the top on an empty page.  The module-level state (llm, df,             *)
(* card_meanings) is the same in every run; the page is what a run emits.  *)
(* The chain's final "| llm" is modelled as a call of llm.invoke on the    *)
(* message list.                                                           *)
(***************************************************************************)
EXTENDS Integers, Sequences, FiniteSets, TLC

VARIABLES
    api_key,            \* os.getenv("DASHSCOPE_API_KEY") at startup
    llm,                \* the client selected at startup (live or fallback)
    df,                 \* the rows of data/tarots.csv as pandas read them
    card_meanings,      \* the deck built from df at startup
    num_cards,          \* selectbox value
    context_question,   \* text_area value
    button,             \* "idle" | "clicked": st.button of the current run
    drawn_cards_list,   \* what generate_random_draw returned in this run
    prompt_input,       \* <<>> or <<dict>>: what prepare_prompt_input returned
    llm_request,        \* the message list handed to llm.invoke (<<>> if none)
    backend_calls,      \* dashscope.Generation.call calls made in this run
    backend_response,   \* <<>> or <<response>>: what the backend answered
    page,               \* what the run rendered
    escaped             \* an exception left the button handler

vars == <<api_key, llm, df, card_meanings, num_cards, context_question, button,
          drawn_cards_list, prompt_input, llm_request, backend_calls,
          backend_response, page, escaped>>

-----------------------------------------------------------------------------
(* Bounds *)

MaxRows == 3

-----------------------------------------------------------------------------
(* Python str helpers *)

IsSpace(tok) == tok \in {" ", "\t", "\n"}

RECURSIVE LStrip(_)
LStrip(s) == IF s # <<>> /\ IsSpace(Head(s)) THEN LStrip(Tail(s)) ELSE s

RECURSIVE RStrip(_)
RStrip(s) ==
    IF s # <<>> /\ IsSpace(s[Len(s)]) THEN RStrip(SubSeq(s, 1, Len(s) - 1)) ELSE s

\* str.strip()
Strip(s) == RStrip(LStrip(s))

\* '\n'.join(list)
RECURSIVE JoinNL(_)
JoinNL(list) ==
    IF list = <<>> THEN <<>>
    ELSE IF Len(list) = 1 THEN list[1]
    ELSE list[1] \o <<"\n">> \o JoinNL(Tail(list))

\* The replacement field "{key}" of a format string, as one token.
ReplacementField(key) ==
    CASE key = "card_details" -> "{card_details}"
      [] key = "context" -> "{context}"
      [] key = "symbolism" -> "{symbolism}"

\* template.format(**kw): every replacement field is replaced by its value;
\* the substituted values are not scanned again.
RECURSIVE Format(_, _)
Format(template, kw) ==
    IF template = <<>> THEN <<>>
    ELSE LET tok == Head(template)
             keys == {k \in DOMAIN kw : ReplacementField(k) = tok}
         IN  (IF keys # {} THEN kw[CHOOSE k \in keys : TRUE] ELSE <<tok>>)
             \o Format(Tail(template), kw)

-----------------------------------------------------------------------------
(* Startup: lines 17-35 (client) and 38-85 (deck) of qianwen_app.py *)

\* A csv cell: na is pandas' NaN (an empty field), text the field otherwise.
Cell(text) == [na |-> FALSE, text |-> text]
NaN == [na |-> TRUE, text |-> <<>>]

\* str(e) of the ValueError of qianwen_app.py line 22
KEY_NOT_CONFIGURED == <<"Tongyi Qianwen API key not configured, make sure .env contains DASHSCOPE_API_KEY">>

\* The environment's DASHSCOPE_API_KEY: unset (None), empty, or a key.
ApiKeys == { [set |-> FALSE, value |-> <<>>],
             [set |-> TRUE, value |-> <<>>],
             [set |-> TRUE, value |-> <<"sk-test">>] }

\* hf.FallbackLLM(error_message)
FallbackLLM(error_message) ==
    [kind |-> "fallback", error_message |-> error_message, api_key |-> <<>>]

\* qwen_improved.QwenLLMImproved(api_key=...)
QwenLLMImproved(key) ==
    [kind |-> "live", error_message |-> <<>>, api_key |-> key]

\* variant: the fallback is skipped and a live client is built with no key
InitLLM_always_live(key) == QwenLLMImproved(key.value)

\* lines 17-35: "not api_key" raises, and the except clause substitutes the
\* fallback built from str(e)
InitLLM(key) ==
    IF ~key.set \/ key.value = <<>>
    THEN FallbackLLM(KEY_NOT_CONFIGURED)
    ELSE QwenLLMImproved(key.value)

\* Rows a tarots.csv can hold: a name with trailing whitespace, empty fields
\* (NaN), a whitespace-only field and a field padded with whitespace.
CsvRows ==
    { [card |-> <<"Fool">>, upright |-> Cell(<<"new beginnings">>),
       reversed |-> Cell(<<"recklessness">>), symbolism |-> Cell(<<"innocence">>)],
      [card |-> <<"Fool", " ">>, upright |-> Cell(<<"leap">>),
       reversed |-> NaN, symbolism |-> Cell(<<"cliff">>)],
      [card |-> <<"Magician">>, upright |-> NaN,
       reversed |-> Cell(<<"trickery">>), symbolism |-> NaN],
      [card |-> <<"Empress">>, upright |-> Cell(<<" ", "abundance", " ">>),
       reversed |-> Cell(<<" ">>), symbolism |-> Cell(<<"nature">>)] }

\* pd.read_csv: between 1 and MaxRows different rows, in any order (an empty
\* file is a load error)
DataFrames ==
    UNION { {rows \in [1..k -> CsvRows] :
                \A i, j \in 1..k : i # j => rows[i] # rows[j]} : k \in 1..MaxRows }

\* str(cell).strip() if pd.notna(cell) else ''
CleanCell(cell) == IF ~cell.na THEN Strip(cell.text) ELSE <<>>

\* lines 66-73: later rows overwrite earlier ones with the same stripped name
RECURSIVE BuildCardMeanings(_)
BuildCardMeanings(rows) ==
    IF rows = <<>> THEN <<>>
    ELSE LET prev == BuildCardMeanings(SubSeq(rows, 1, Len(rows) - 1))
             row == rows[Len(rows)]
             card_name == Strip(row.card)
             entry == [upright |-> CleanCell(row.upright),
                       reversed |-> CleanCell(row.reversed),
                       symbolism |-> CleanCell(row.symbolism)]
         IN  [k \in (DOMAIN prev) \cup {card_name} |->
                 IF k = card_name THEN entry ELSE prev[k]]

\* df['card'].unique().tolist(): the raw names, in order of first appearance
RECURSIVE Unique(_)
Unique(names) ==
    IF names = <<>> THEN <<>>
    ELSE LET prev == Unique(SubSeq(names, 1, Len(names) - 1))
             last == names[Len(names)]
         IN  IF \E i \in 1..Len(prev) : prev[i] = last THEN prev
             ELSE Append(prev, last)

\* line 134
card_names_in_dataset == Unique([i \in 1..Len(df) |-> df[i].card])

-----------------------------------------------------------------------------
(* helpers/qianwen_help_func.py *)

\* A raised exception: its class and str(e)
Exception(type, msg) == [type |-> type, msg |-> msg]

\* the functions [1..n -> 1..m] that pick n distinct positions
Injections(n, m) ==
    {f \in [1..n -> 1..m] : \A i, j \in 1..n : i # j => f[i] # f[j]}

\* variant: the size check is dropped and the draw is clamped to the list
generate_random_draw_clamped(n, available_cards) ==
    LET k == IF n > Len(available_cards) THEN Len(available_cards) ELSE n
    IN  { [raised |-> <<>>,
           cards |-> [i \in 1..k |-> [name |-> available_cards[f[i]],
                                      is_reversed |-> o[i]]]] :
          f \in Injections(k, Len(available_cards)), o \in [1..k -> BOOLEAN] }

\* lines 23-51.  The set of outcomes: the ValueError, or one list per outcome
\* of random.sample (n distinct positions, in any order) and of the n
\* orientation trials (random.random() < 0.3).
generate_random_draw(n, available_cards) ==
    IF n > Len(available_cards)
    THEN { [raised |-> <<Exception("ValueError",
                <<"requested cards (", ToString(n), ") exceed available cards (",
                  ToString(Len(available_cards)), ")">>)>>,
            cards |-> <<>>] }
    ELSE { [raised |-> <<>>,
            cards |-> [i \in 1..n |-> [name |-> available_cards[f[i]],
                                       is_reversed |-> o[i]]]] :
           f \in Injections(n, Len(available_cards)), o \in [1..n -> BOOLEAN] }

\* literals of prepare_prompt_input (lines 81-97)
REVERSED_UNKNOWN == <<"reversed meaning unknown">>
UPRIGHT_UNKNOWN == <<"upright meaning unknown">>
SYMBOLISM_UNKNOWN == <<"symbolism unknown">>
POSITION_REVERSED == <<"reversed">>
POSITION_UPRIGHT == <<"upright">>
MEANING_PENDING == <<"meaning pending">>
SYMBOLISM_PENDING == <<"symbolism pending">>

\* dict.get(key, default): the default only when the key is missing
Get(d, key, default) == IF key \in DOMAIN d THEN d[key] ELSE default

\* f"**{card_name}** ({position}): {meaning}"
CardDetail(card_name, position, meaning) ==
    <<"**">> \o card_name \o <<"**", " (">> \o position \o <<"): ">> \o meaning

\* f"**{card_name}**: {symbolism}"
SymbolismLine(card_name, symbolism) ==
    <<"**">> \o card_name \o <<"**", ": ">> \o symbolism

\* variant: the orientation test is inverted
ResolveCard_swapped(card_info, meanings) ==
    LET card_name == card_info.name
        is_reversed == card_info.is_reversed
    IN  IF card_name \in DOMAIN meanings
        THEN LET meaning_data == meanings[card_name]
                 meaning == IF ~is_reversed
                            THEN Get(meaning_data, "reversed", REVERSED_UNKNOWN)
                            ELSE Get(meaning_data, "upright", UPRIGHT_UNKNOWN)
                 position == IF is_reversed THEN POSITION_REVERSED
                             ELSE POSITION_UPRIGHT
             IN  [detail |-> CardDetail(card_name, position, meaning),
                  symbolism |-> SymbolismLine(card_name,
                      Get(meaning_data, "symbolism", SYMBOLISM_UNKNOWN))]
        ELSE [detail |-> CardDetail(card_name,
                  IF is_reversed THEN POSITION_REVERSED ELSE POSITION_UPRIGHT,
                  MEANING_PENDING),
              symbolism |-> SymbolismLine(card_name, SYMBOLISM_PENDING)]

\* variant: a name missing from the deck takes the "unknown" texts of a
\* present card instead of the "pending" ones
ResolveCard_no_pending(card_info, meanings) ==
    LET card_name == card_info.name
        is_reversed == card_info.is_reversed
        meaning_data == IF card_name \in DOMAIN meanings THEN meanings[card_name]
                        ELSE <<>>
        meaning == IF is_reversed
                   THEN Get(meaning_data, "reversed", REVERSED_UNKNOWN)
                   ELSE Get(meaning_data, "upright", UPRIGHT_UNKNOWN)
        position == IF is_reversed THEN POSITION_REVERSED ELSE POSITION_UPRIGHT
    IN  [detail |-> CardDetail(card_name, position, meaning),
         symbolism |-> SymbolismLine(card_name,
             Get(meaning_data, "symbolism", SYMBOLISM_UNKNOWN))]

\* lines 71-97: the body of the loop of prepare_prompt_input for one card
ResolveCard(card_info, meanings) ==
    LET card_name == card_info.name
        is_reversed == Get(card_info, "is_reversed", FALSE)
    IN  IF card_name \in DOMAIN meanings
        THEN LET meaning_data == meanings[card_name]
                 meaning == IF is_reversed
                            THEN Get(meaning_data, "reversed", REVERSED_UNKNOWN)
                            ELSE Get(meaning_data, "upright", UPRIGHT_UNKNOWN)
                 position == IF is_reversed THEN POSITION_REVERSED
                             ELSE POSITION_UPRIGHT
             IN  [detail |-> CardDetail(card_name, position, meaning),
                  symbolism |-> SymbolismLine(card_name,
                      Get(meaning_data, "symbolism", SYMBOLISM_UNKNOWN))]
        ELSE [detail |-> CardDetail(card_name,
                  IF is_reversed THEN POSITION_REVERSED ELSE POSITION_UPRIGHT,
                  MEANING_PENDING),
              symbolism |-> SymbolismLine(card_name, SYMBOLISM_PENDING)]

\* lines 54-103
prepare_prompt_input(input_data, meanings) ==
    LET cards == input_data.cards
        resolved == [i \in 1..Len(cards) |-> ResolveCard(cards[i], meanings)]
        card_details_list == [i \in 1..Len(cards) |-> resolved[i].detail]
        symbolism_list == [i \in 1..Len(cards) |-> resolved[i].symbolism]
    IN  [card_details |-> JoinNL(card_details_list),
         context |-> input_data.context,
         symbolism |-> JoinNL(symbolism_list)]

\* lines 11-20: FallbackLLM.invoke ignores the messages
FallbackLLM_invoke(self, messages) ==
    <<"Sorry, the AI model is temporarily unavailable: ">> \o self.error_message
    \o <<". Please retry later or check the configuration.">>

-----------------------------------------------------------------------------
(* helpers/qwen_langchain_improved.py *)

SystemMessage(content) == [type |-> "system", content |-> content]
HumanMessage(content) == [type |-> "human", content |-> content]
AIMessage(content) == [type |-> "ai", content |-> content]

\* What dashscope.Generation.call can do: raise, or return a response with a
\* status code, with or without 'output', 'choices' and 'message'.
Response(status_code, has_output, has_choices, choices, has_message, message) ==
    [raises |-> <<>>, status_code |-> status_code, has_output |-> has_output,
     has_choices |-> has_choices, choices |-> choices,
     has_message |-> has_message, message |-> message]

BackendOutcomes ==
    { Response(200, TRUE, TRUE, <<<<"the cards say ...">>>>, FALSE, <<>>),
      Response(200, FALSE, FALSE, <<>>, FALSE, <<>>),
      Response(200, TRUE, FALSE, <<>>, FALSE, <<>>),
      Response(200, TRUE, TRUE, <<>>, FALSE, <<>>),
      Response(401, FALSE, FALSE, <<>>, TRUE, <<"Invalid API-key provided.">>),
      Response(500, FALSE, FALSE, <<>>, FALSE, <<>>),
      [raises |-> <<Exception("ConnectionError", <<"connection refused">>)>>,
       status_code |-> 0, has_output |-> FALSE, has_choices |-> FALSE,
       choices |-> <<>>, has_message |-> FALSE, message |-> <<>>] }

\* literals of _generate (lines 77 and 81)
API_CALL_FAILED == <<"API call failed: HTTP status code ">>
API_CALL_EXCEPTION == <<"API call exception: ">>
UNKNOWN_ERROR == <<"unknown error">>

\* lines 57-79: the try block of _generate
GenerateTry(response) ==
    IF response.raises # <<>>
    THEN [raised |-> response.raises, text |-> <<>>]
    ELSE IF response.status_code = 200 /\ response.has_output
            /\ response.has_choices
    THEN IF response.choices = <<>>
         THEN [raised |-> <<Exception("IndexError", <<"list index out of range">>)>>,
               text |-> <<>>]
         ELSE [raised |-> <<>>, text |-> response.choices[1]]
    ELSE [raised |-> <<>>,
          text |-> API_CALL_FAILED \o <<ToString(response.status_code)>>
                   \o <<", error: ">>
                   \o (IF response.has_message THEN response.message
                       ELSE UNKNOWN_ERROR)]

\* variant: no except clause around the call
_generate_no_except(response) == GenerateTry(response)

\* lines 54-85: whatever the try block raises becomes the generation's text
_generate(response) ==
    LET r == GenerateTry(response)
    IN  IF r.raised # <<>>
        THEN [raised |-> <<>>, text |-> API_CALL_EXCEPTION \o r.raised[1].msg]
        ELSE r

\* lines 106-123: invoke on a message list
QwenLLMImproved_invoke(response) ==
    LET result == _generate(response)
    IN  IF result.raised # <<>> THEN [raised |-> result.raised, value |-> <<>>]
        ELSE [raised |-> <<>>, value |-> AIMessage(result.text)]

-----------------------------------------------------------------------------
(* qianwen_app.py *)

\* variant: the template lost its {symbolism} field
system_message_template_no_symbolism ==
    <<"\n", "You are a mysterious tarot reader ... analyse these cards:", "\n",
      "{card_details}", "\n",
      "- ... give an overall reading related to the context: ",
      "{context}", ".", "\n",
      "- ... explain the cards' symbolism ...", "\n">>

\* lines 90-99, one token per replacement field and per run of fixed text
system_message_template ==
    <<"\n", "You are a mysterious tarot reader ... analyse these cards:", "\n",
      "{card_details}", "\n",
      "- ... give an overall reading related to the context: ",
      "{context}", ".", "\n",
      "- ... explain the cards' symbolism based on the column ",
      "{symbolism}", " ...", "\n">>

\* line 102: PromptTemplate.from_template("{context}")
prompt_analysis == <<"{context}">>

\* line 111: the message list built from the prompt input
BuildMessages(x) ==
    << SystemMessage(Format(system_message_template, x)),
       HumanMessage(Format(prompt_analysis, [context |-> x.context])) >>

\* line 126
NumCardsChoices == {3, 5, 7}

\* what the user can type at line 127
Contexts == { <<>>, <<"What does ", "{symbolism}", " mean for my job?">> }

\* The images directory: the files it holds, and those PIL cannot read.
AllNames == {r.card : r \in CsvRows}
ImageDirs == { [files |-> AllNames, unreadable |-> {}],
               [files |-> {<<"Fool">>}, unreadable |-> {}],
               [files |-> AllNames, unreadable |-> {<<"Magician">>}] }

\* line 145: "(R)" if 'is_reversed' in card_info else ""
ReversedLabel(card_info) ==
    IF "is_reversed" \in DOMAIN card_info THEN <<"(R)">> ELSE <<>>

\* lines 140-154 for one card: the element rendered, or the exception raised
ShowCard(card_info, images) ==
    LET image_filename == card_info.name
        reversed_label == ReversedLabel(card_info)
        caption == card_info.name \o <<" ">> \o reversed_label
    IN  IF image_filename \notin images.files
        THEN [raised |-> <<>>,
              shown |-> <<[kind |-> "info", rotated |-> FALSE,
                  text |-> <<"Symbol: ">> \o card_info.name \o <<" ">>
                           \o reversed_label \o <<" (no image found at images/">>
                           \o image_filename \o <<")">>]>>]
        ELSE IF image_filename \in images.unreadable
        THEN [raised |-> <<Exception("UnidentifiedImageError",
                               <<"cannot identify image file">>)>>,
              shown |-> <<>>]
        ELSE [raised |-> <<>>,
              shown |-> <<[kind |-> "image",
                           rotated |-> Get(card_info, "is_reversed", FALSE),
                           text |-> caption]>>]

\* lines 139-154: the loop stops at the first card that raises
RECURSIVE ShowCards(_, _)
ShowCards(cards, images) ==
    IF cards = <<>> THEN [raised |-> <<>>, shown |-> <<>>]
    ELSE LET first == ShowCard(Head(cards), images)
         IN  IF first.raised # <<>> THEN first
             ELSE LET rest == ShowCards(Tail(cards), images)
                  IN  [raised |-> rest.raised,
                       shown |-> first.shown \o rest.shown]

EmptyPage == [warning |-> FALSE, cards |-> <<>>, result |-> <<>>, error |-> <<>>]

\* lines 110-112 and 158-164: analyzer.invoke up to the text written to the
\* page.  The fallback returns a str and never calls the backend; the live
\* client calls it once and returns an AIMessage.
Analyze(client, cards, context, meanings, response) ==
    LET x == prepare_prompt_input([cards |-> cards, context |-> context], meanings)
        messages == BuildMessages(x)
    IN  IF client.kind = "fallback"
        THEN [raised |-> <<>>, prompt |-> <<x>>, request |-> messages,
              calls |-> 0, response |-> <<>>,
              written |-> <<FallbackLLM_invoke(client, messages)>>]
        ELSE LET r == QwenLLMImproved_invoke(response)
             IN  [raised |-> r.raised, prompt |-> <<x>>, request |-> messages,
                  calls |-> 1, response |-> <<response>>,
                  written |-> IF r.raised # <<>> THEN <<>>
                              ELSE <<r.value.content>>]

\* lines 134-164: the try block of the button handler
TryBody(draw, images, response) ==
    LET none == [raised |-> <<>>, prompt |-> <<>>, request |-> <<>>,
                 calls |-> 0, response |-> <<>>, written |-> <<>>]
    IN  IF draw.raised # <<>>
        THEN [raised |-> draw.raised, cards |-> <<>>, shown |-> <<>>, llm |-> none]
        ELSE LET show == ShowCards(draw.cards, images)
             IN  IF show.raised # <<>>
                 THEN [raised |-> show.raised, cards |-> draw.cards,
                       shown |-> show.shown, llm |-> none]
                 ELSE LET a == Analyze(llm, draw.cards, context_question,
                                       card_meanings, response)
                      IN  [raised |-> a.raised, cards |-> draw.cards,
                           shown |-> show.shown, llm |-> a]

\* variant: the handler catches ValueError only
CatchAtBoundary_value_error_only(raised) ==
    IF raised = <<>> THEN [error |-> <<>>, escaped |-> FALSE]
    ELSE IF raised[1].type = "ValueError"
    THEN [error |-> <<<<"An error occurred: ">> \o raised[1].msg>>,
          escaped |-> FALSE]
    ELSE [error |-> <<>>, escaped |-> TRUE]

\* lines 166-167: except Exception as e: st.error(...)
CatchAtBoundary(raised) ==
    IF raised = <<>> THEN [error |-> <<>>, escaped |-> FALSE]
    ELSE [error |-> <<<<"An error occurred: ">> \o raised[1].msg>>,
          escaped |-> FALSE]

-----------------------------------------------------------------------------
(* The state machine *)

Init ==
    /\ api_key \in ApiKeys
    /\ llm = InitLLM(api_key)
    /\ df \in DataFrames
    /\ card_meanings = BuildCardMeanings(df)
    /\ num_cards = 3
    /\ context_question = <<>>
    /\ button = "idle"
    /\ drawn_cards_list = <<>>
    /\ prompt_input = <<>>
    /\ llm_request = <<>>
    /\ backend_calls = 0
    /\ backend_response = <<>>
    /\ page = EmptyPage
    /\ escaped = FALSE

\* A new run of the script starts on an empty page.
NewRun ==
    /\ drawn_cards_list' = <<>>
    /\ prompt_input' = <<>>
    /\ llm_request' = <<>>
    /\ backend_calls' = 0
    /\ backend_response' = <<>>
    /\ page' = EmptyPage

\* line 126: the user picks another number of cards
SelectNumCards ==
    /\ ~escaped /\ button = "idle"
    /\ \E n \in NumCardsChoices \ {num_cards} : num_cards' = n
    /\ NewRun
    /\ UNCHANGED <<api_key, llm, df, card_meanings, context_question, button,
                   escaped>>

\* line 127: the user edits the question
EnterContext ==
    /\ ~escaped /\ button = "idle"
    /\ \E c \in Contexts \ {context_question} : context_question' = c
    /\ NewRun
    /\ UNCHANGED <<api_key, llm, df, card_meanings, num_cards, button, escaped>>

\* line 129: the user presses the button; the run enters the handler
ClickButton ==
    /\ ~escaped /\ button = "idle"
    /\ button' = "clicked"
    /\ NewRun
    /\ UNCHANGED <<api_key, llm, df, card_meanings, num_cards, context_question,
                   escaped>>

\* lines 130-131: no question, a warning and nothing else
WarnNoContext ==
    /\ ~escaped /\ button = "clicked"
    /\ context_question = <<>>
    /\ page' = [page EXCEPT !.warning = TRUE]
    /\ button' = "idle"
    /\ UNCHANGED <<api_key, llm, df, card_meanings, num_cards, context_question,
                   drawn_cards_list, prompt_input, llm_request, backend_calls,
                   backend_response, escaped>>

\* The parts of the environment a run reads: the images directory only after
\* a successful draw, the backend only when the live client gets called.
ImagesRead(draw) ==
    IF draw.raised = <<>> THEN ImageDirs
    ELSE {CHOOSE d \in ImageDirs : TRUE}

ResponsesRead(draw, images) ==
    IF draw.raised = <<>> /\ ShowCards(draw.cards, images).raised = <<>>
       /\ llm.kind = "live"
    THEN BackendOutcomes
    ELSE {CHOOSE r \in BackendOutcomes : TRUE}

\* lines 132-167: draw, show, analyze, with the except clause
DrawAndAnalyze ==
    /\ ~escaped /\ button = "clicked"
    /\ context_question # <<>>
    /\ \E draw \in generate_random_draw(num_cards, card_names_in_dataset) :
       \E images \in ImagesRead(draw) :
       \E response \in ResponsesRead(draw, images) :
          LET body == TryBody(draw, images, response)
              handled == CatchAtBoundary(body.raised)
          IN  /\ drawn_cards_list' = body.cards
              /\ prompt_input' = body.llm.prompt
              /\ llm_request' = body.llm.request
              /\ backend_calls' = body.llm.calls
              /\ backend_response' = body.llm.response
              /\ page' = [warning |-> FALSE, cards |-> body.shown,
                          result |-> body.llm.written, error |-> handled.error]
              /\ escaped' = handled.escaped
    /\ button' = "idle"
    /\ UNCHANGED <<api_key, llm, df, card_meanings, num_cards, context_question>>

Next ==
    \/ SelectNumCards
    \/ EnterContext
    \/ ClickButton
    \/ WarnNoContext
    \/ DrawAndAnalyze

Spec == Init /\ [][Next]_vars

-----------------------------------------------------------------------------
(* State descriptions used by the properties *)

\* sub in s
Contains(s, sub) ==
    \E i \in 0..(Len(s) - Len(sub)) : SubSeq(s, i + 1, i + Len(sub)) = sub

\* s.startswith(prefix)
StartsWith(s, prefix) ==
    Len(prefix) <= Len(s) /\ SubSeq(s, 1, Len(prefix)) = prefix

\* s.split('\n')
RECURSIVE SplitNL(_)
SplitNL(s) ==
    IF \A i \in 1..Len(s) : s[i] # "\n" THEN <<s>>
    ELSE LET k == CHOOSE i \in 1..Len(s) :
                      s[i] = "\n" /\ \A j \in 1..(i - 1) : s[j] # "\n"
         IN  <<SubSeq(s, 1, k - 1)>> \o SplitNL(SubSeq(s, k + 1, Len(s)))

\* the handler's try block ran in the run that produced this page
HandlerRan == page.result # <<>> \/ page.error # <<>>

DetailLines == SplitNL(prompt_input[1].card_details)
SymbolismLines == SplitNL(prompt_input[1].symbolism)

InDeck(i) == drawn_cards_list[i].name \in DOMAIN card_meanings

PositionOf(i) ==
    IF drawn_cards_list[i].is_reversed THEN POSITION_REVERSED ELSE POSITION_UPRIGHT

\* the deck's text for the orientation of the i-th drawn card
DeckText(i) ==
    IF drawn_cards_list[i].is_reversed
    THEN card_meanings[drawn_cards_list[i].name].reversed
    ELSE card_meanings[drawn_cards_list[i].name].upright

BackendFailed(r) ==
    \/ r.raises # <<>>
    \/ r.status_code # 200
    \/ ~r.has_output
    \/ ~r.has_choices
    \/ r.choices = <<>>

-----------------------------------------------------------------------------
(* Properties *)

\* C1: when the count is at most the deck size, the draw returns exactly that
\* many entries, with pairwise distinct names that are all keys of the deck
\* the resolver uses (card_meanings).
C1_DrawnNamesAreDeckKeys ==
    (HandlerRan /\ num_cards <= Cardinality(DOMAIN card_meanings)) =>
        /\ Len(drawn_cards_list) = num_cards
        /\ \A i, j \in 1..Len(drawn_cards_list) :
               i # j => drawn_cards_list[i].name # drawn_cards_list[j].name
        /\ \A i \in 1..Len(drawn_cards_list) : InDeck(i)

\* C2: when the count exceeds the number of names passed to the draw, the draw
\* fails with the insufficient-cards error and nothing is selected, oriented,
\* shown, resolved or sent.
C2_InsufficientCardsNoPartialResult ==
    (HandlerRan /\ num_cards > Len(card_names_in_dataset)) =>
        /\ page.error =
             << <<"An error occurred: ", "requested cards (", ToString(num_cards),
                  ") exceed available cards (",
                  ToString(Len(card_names_in_dataset)), ")">> >>
        /\ drawn_cards_list = <<>>
        /\ page.cards = <<>>
        /\ prompt_input = <<>>
        /\ llm_request = <<>>
        /\ page.result = <<>>

C2_Witness ==
    /\ HandlerRan
    /\ num_cards > Len(card_names_in_dataset)
    /\ Len(card_names_in_dataset) >= 2
    /\ page.error # <<>>

\* C3: the resolver emits one details line and one symbolism line per drawn
\* card, in draw order, each naming its card; for a card of the deck the
\* details line carries the reversed label and the deck's reversed text when
\* the card is reversed, the upright label and text otherwise; the context is
\* passed through unchanged.
C3_ResolveByOrientation ==
    prompt_input # <<>> =>
        /\ Len(DetailLines) = Len(drawn_cards_list)
        /\ Len(SymbolismLines) = Len(drawn_cards_list)
        /\ \A i \in 1..Len(drawn_cards_list) :
              /\ StartsWith(DetailLines[i],
                     <<"**">> \o drawn_cards_list[i].name \o <<"**", " (">>
                     \o PositionOf(i) \o <<"): ">>)
              /\ StartsWith(SymbolismLines[i],
                     <<"**">> \o drawn_cards_list[i].name \o <<"**", ": ">>)
              /\ (InDeck(i) /\ DeckText(i) # <<>>) =>
                     DetailLines[i] =
                         <<"**">> \o drawn_cards_list[i].name \o <<"**", " (">>
                         \o PositionOf(i) \o <<"): ">> \o DeckText(i)
        /\ prompt_input[1].context = context_question

C3_Witness ==
    /\ prompt_input # <<>>
    /\ \E i, j \in 1..Len(drawn_cards_list) :
          /\ InDeck(i) /\ drawn_cards_list[i].is_reversed /\ DeckText(i) # <<>>
          /\ InDeck(j) /\ ~drawn_cards_list[j].is_reversed /\ DeckText(j) # <<>>

\* C4: for a drawn card of the deck, an empty selected text is replaced by the
\* "unknown" placeholder of its orientation, and an empty symbolism text by
\* the "symbolism unknown" placeholder.
C4_EmptyTextGetsPlaceholder ==
    prompt_input # <<>> =>
        \A i \in 1..Len(drawn_cards_list) : InDeck(i) =>
            /\ DeckText(i) = <<>> =>
                   DetailLines[i] =
                       <<"**">> \o drawn_cards_list[i].name \o <<"**", " (">>
                       \o PositionOf(i) \o <<"): ">>
                       \o (IF drawn_cards_list[i].is_reversed
                           THEN <<"reversed meaning unknown">>
                           ELSE <<"upright meaning unknown">>)
            /\ card_meanings[drawn_cards_list[i].name].symbolism = <<>> =>
                   SymbolismLines[i] =
                       <<"**">> \o drawn_cards_list[i].name
                       \o <<"**", ": ", "symbolism unknown">>

\* C5: a drawn card whose name is not in the deck raises nothing: the run goes
\* on to the request, its lines carry the two "pending" placeholders with the
\* label of its orientation, and a card of the deck drawn with it keeps its
\* deck texts.
C5_AbsentCardPending ==
    /\ (drawn_cards_list # <<>> /\ Len(page.cards) = Len(drawn_cards_list)) =>
           (prompt_input # <<>> /\ llm_request # <<>>)
    /\ prompt_input # <<>> =>
        \A i \in 1..Len(drawn_cards_list) :
            /\ ~InDeck(i) =>
                 /\ DetailLines[i] =
                        <<"**">> \o drawn_cards_list[i].name \o <<"**", " (">>
                        \o PositionOf(i) \o <<"): ", "meaning pending">>
                 /\ SymbolismLines[i] =
                        <<"**">> \o drawn_cards_list[i].name
                        \o <<"**", ": ", "symbolism pending">>
            /\ (InDeck(i) /\ DeckText(i) # <<>>) =>
                 /\ Contains(DetailLines[i], DeckText(i))
                 /\ ~Contains(DetailLines[i], <<"meaning pending">>)
                 /\ ~Contains(SymbolismLines[i], <<"symbolism pending">>)

C5_Witness ==
    /\ prompt_input # <<>>
    /\ page.error = <<>>
    /\ \E i, j \in 1..Len(drawn_cards_list) :
          /\ ~InDeck(i) /\ drawn_cards_list[i].is_reversed
          /\ InDeck(j)

\* C6: the request is the system message followed by the user message; the
\* system message contains every line of card_details and of symbolism
\* verbatim, and the user message is the context verbatim.
C6_RequestCarriesPromptInput ==
    llm_request # <<>> =>
        /\ Len(llm_request) = 2
        /\ llm_request[1].type = "system"
        /\ llm_request[2].type = "human"
        /\ \A i \in 1..Len(DetailLines) :
               Contains(llm_request[1].content, DetailLines[i])
        /\ \A i \in 1..Len(SymbolismLines) :
               Contains(llm_request[1].content, SymbolismLines[i])
        /\ llm_request[2].content = prompt_input[1].context
        /\ llm_request[2].content = context_question

C6_Witness ==
    /\ llm_request # <<>>
    /\ Len(DetailLines) = 3
    /\ Contains(context_question, <<"{symbolism}">>)
    /\ \E i \in 1..3 : ~InDeck(i)

\* C7: with the API key unset or empty the client is the fallback; every run
\* that reaches the client writes the fixed apology quoting the configuration
\* error, and the backend is never called.
C7_FallbackAlwaysApologises ==
    (~api_key.set \/ api_key.value = <<>>) =>
        /\ llm.kind = "fallback"
        /\ backend_calls = 0
        /\ backend_response = <<>>
        /\ llm_request # <<>> =>
              /\ page.result =
                   << <<"Sorry, the AI model is temporarily unavailable: ">>
                      \o KEY_NOT_CONFIGURED
                      \o <<". Please retry later or check the configuration.">> >>
              /\ Contains(page.result[1], KEY_NOT_CONFIGURED)
              /\ page.error = <<>>

C7_Witness ==
    /\ api_key.set /\ api_key.value = <<>>
    /\ llm_request # <<>>
    /\ page.result # <<>>

\* C8: whatever the backend does, the live client returns a text and raises
\* nothing; a failed call returns a text describing the error, and an HTTP
\* error status returns the "API call failed" marker with the status code and
\* the backend's message.
C8_BackendFailureIsText ==
    (llm.kind = "live" /\ backend_response # <<>>) =>
        LET r == backend_response[1] IN
        /\ ~escaped
        /\ page.error = <<>>
        /\ Len(page.result) = 1
        /\ page.result[1] # <<>>
        /\ BackendFailed(r) =>
              \/ StartsWith(page.result[1], <<"API call failed: HTTP status code ">>)
              \/ StartsWith(page.result[1], <<"API call exception: ">>)
        /\ (r.raises = <<>> /\ r.status_code # 200) =>
              /\ StartsWith(page.result[1], <<"API call failed: HTTP status code ">>)
              /\ Contains(page.result[1], <<ToString(r.status_code)>>)
              /\ r.has_message => Contains(page.result[1], r.message)

C8_Witness ==
    /\ llm.kind = "live"
    /\ backend_response # <<>>
    /\ backend_response[1].raises = <<>>
    /\ backend_response[1].status_code = 200
    /\ backend_response[1].has_choices
    /\ backend_response[1].choices = <<>>
    /\ page.result # <<>>

\* C9: no exception leaves the button handler: a run that fails ends with an
\* error message on the page and the session can run the next action; when
\* the count exceeds the available cards the error is shown and the client is
\* not called.
C9_ErrorsCaughtAtActionBoundary ==
    /\ ~escaped
    /\ button = "idle" => ENABLED ClickButton
    /\ button \in {"idle", "clicked"}
    /\ (drawn_cards_list # <<>> /\ page.result = <<>>) => page.error # <<>>
    /\ (HandlerRan /\ num_cards > Len(card_names_in_dataset)) =>
          /\ page.error # <<>>
          /\ llm_request = <<>>
          /\ backend_calls = 0
          /\ page.result = <<>>

C9_Witness ==
    /\ drawn_cards_list # <<>>
    /\ page.error # <<>>
    /\ button = "idle"

\* C10: a shown card carries the "(R)" marker, in its caption or in its
\* missing-image notice, only when it is reversed.
C10_MarkerOnlyWhenReversed ==
    \A i \in 1..Len(page.cards) :
        Contains(page.cards[i].text, <<"(R)">>) => drawn_cards_list[i].is_reversed

====
